---- MODULE Spec2Model ----
(***************************************************************************)
(* django-linguist: the per-instance translation cache of ModelMixin, its  *)
(* language selection and its synchronisation with the stored Translation  *)
(* rows on save(); the model class ModelMeta builds; the prefetch of        *)
(* ManagerMixin.with_translations; the admin view delete_translations.     *)
(*                                                                         *)
(* linguist/mixins.py is modelled from its code.  The classes it calls     *)
(* into from linguist/fields, linguist/cache and linguist/models (Linguist,*)
(* CachedTranslation, TranslationDescriptor, the Translation manager) are  *)
(* modelled from their contract; those definitions say so.                 *)
(***************************************************************************)
EXTENDS Integers, Sequences, FiniteSets, Bags, TLC

(* ------------------------------------------------------------------ *)
(* Bounds and test data                                                *)
(* ------------------------------------------------------------------ *)

\* Largest primary key the model table hands out.
MaxPk == 1

\* Deepest nesting of 'with instance.override_language(..)' blocks.
MaxDepth == 2

\* In-memory model instances (the variables of a program holding one).
Objects == {"x", "y"}

\* The instance the cache and storage operations are exercised on.
Primary == {"x"}

\* settings.SUPPORTED_LANGUAGES, as the tests use them.
Languages == {"en", "fr"}

\* Meta.linguist['fields'] of the model.
Fields == {"title"}

\* Non-empty field values a program assigns.
Values == {"a", "b"}

\* Python's None, for a language or a field value.
NONE == "None"

\* instance.pk of an instance that was never saved (None, falsy).
NoPk == 0

\* Meta.linguist['identifier'] of the model.
Identifier == "foo"

\* utils.get_fallback_language(): the default language of a new instance.
FallbackLanguage == "en"

Keys == Fields \X Languages

VARIABLES
    pk,                 \* pk[o]: instance.pk, NoPk before the first save
    language,           \* language[o]: instance._linguist.language
    default_language,   \* default_language[o]: instance._linguist.default_language
    translations,       \* translations[o]: instance._linguist.translations, (field, language) -> CachedTranslation
    overrides,          \* overrides[o]: previous_language of the override_language blocks now open, innermost first
    table,              \* primary keys of the rows of the model's table
    storage,            \* the Translation table: a bag of rows
    assigned,           \* assigned[o]: the pairs assigned on o since its cache was last empty
    written,            \* written[o]: (field, language) -> value assigned on o since its last save, load or clear
    changed,            \* changed[o]: the pairs an assignment on o gave another value since its last save or load
    expected,           \* expected[p]: (field, language) -> value last assigned and then saved for object p
    queries,            \* queries issued by the operation that ran last, when it was a save()
    last,               \* the operation that ran last, and the instance it ran on
    declared,           \* the class statement of the model: its fields, its bases' fields, its Meta
    built,              \* what ModelMeta.__new__ made of the class statement
    response,           \* what the admin view answered to the request served last
    kwargs              \* the keyword arguments the program calls with_translations with

vars == <<pk, language, default_language, translations, overrides, table,
          storage, assigned, written, changed, expected, queries, last,
          declared, built, response, kwargs>>

\* What the operations on an instance leave alone: the model class, the
\* admin's last response and the arguments of the prefetch.
static == <<declared, built, response, kwargs>>

Empty == [k \in {} |-> NONE]

\* The record of an operation.
Op(name, o) == [op |-> name, obj |-> o]

\* An operation that is no save() ran on o.
Ran(name, o) == last' = Op(name, o) /\ queries' = 0

(* ------------------------------------------------------------------ *)
(* The Translation table                                               *)
(* ------------------------------------------------------------------ *)

Row(oid, f, l, v) ==
    [identifier |-> Identifier, object_id |-> oid, field_name |-> f,
     language |-> l, field_value |-> v]

\* Translation.objects.filter(identifier=.., object_id=.., field_name=.., language=..)
Lookup(rows, oid, f, l) ==
    {r \in BagToSet(rows) : /\ r.identifier = Identifier
                            /\ r.object_id = oid
                            /\ r.field_name = f
                            /\ r.language = l}

\* Number of rows stored under a key.
RowCount(rows, oid, f, l) ==
    LET S == Lookup(rows, oid, f, l)
        RECURSIVE Sum(_)
        Sum(T) == IF T = {} THEN 0
                  ELSE LET r == CHOOSE r \in T : TRUE
                       IN CopiesIn(r, rows) + Sum(T \ {r})
    IN Sum(S)

\* .filter(**lookup).update(field_value=v): every row under the key gets v.
UpdateRows(rows, oid, f, l, v) ==
    LET n == RowCount(rows, oid, f, l)
        rest == [r \in BagToSet(rows) \ Lookup(rows, oid, f, l) |-> rows[r]]
    IN IF n = 0 THEN rows
       ELSE rest (+) [r \in {Row(oid, f, l, v)} |-> n]

\* objects.create(**attrs): one more row.
CreateRow(rows, oid, f, l, v) == rows (+) SetToBag({Row(oid, f, l, v)})

(* ------------------------------------------------------------------ *)
(* The instance cache (Linguist, CachedTranslation)                    *)
(* ------------------------------------------------------------------ *)

\* CachedTranslation.from_object(translation): a stored row, cached.
FromObject(r) ==
    [identifier |-> r.identifier, object_id |-> r.object_id,
     field_name |-> r.field_name, language |-> r.language,
     field_value |-> r.field_value, is_new |-> FALSE, has_changed |-> FALSE]

\* CachedTranslation(instance=.., language=.., field_name=.., field_value=..)
NewCached(o, f, l, v) ==
    [identifier |-> Identifier, object_id |-> pk[o],
     field_name |-> f, language |-> l,
     field_value |-> v, is_new |-> TRUE, has_changed |-> TRUE]

\* Whether get_cache finds a translation: in the cache, or stored for a saved instance.
HasTranslation(o, f, l) ==
    \/ <<f, l>> \in DOMAIN translations[o]
    \/ pk[o] # NoPk /\ Lookup(storage, pk[o], f, l) # {}

\* Linguist.get_cache: the cached entry, else the stored row of a saved instance.
get_cache(o, f, l) ==
    IF <<f, l>> \in DOMAIN translations[o]
    THEN translations[o][<<f, l>>]
    ELSE FromObject(CHOOSE r \in Lookup(storage, pk[o], f, l) : TRUE)

\* Linguist.set_cache(instance, language, field_name, field_value): the cache afterwards.
set_cache(o, f, l, v) ==
    LET c == translations[o]
        e == IF HasTranslation(o, f, l)
             THEN LET old == get_cache(o, f, l)
                  IN IF v # old.field_value
                     THEN [old EXCEPT !.field_value = v, !.has_changed = TRUE]
                     ELSE old
             ELSE NewCached(o, f, l, v)
    IN [k \in DOMAIN c \cup {<<f, l>>} |-> IF k = <<f, l>> THEN e ELSE c[k]]

\* TranslationDescriptor.__get__: the value of <field>_<language>.
get_localized(o, f, l) ==
    IF HasTranslation(o, f, l) THEN get_cache(o, f, l).field_value ELSE NONE

\* Linguist.translations_count
translations_count(o) == Cardinality(DOMAIN translations[o])

\* ModelMixin.cached_translations_count
cached_translations_count(o) == translations_count(o)

(* ------------------------------------------------------------------ *)
(* Language selection                                                  *)
(* ------------------------------------------------------------------ *)

\* The language a bare field name stands for: the instance's active
\* language, its default language when none is active.
ActiveLanguage(o) ==
    IF language[o] \in Languages THEN language[o] ELSE default_language[o]

\* The language expression without its first operand.
current_language_default(o) == default_language[o]

\* 'self._linguist.language or self.default_language'
current_language(o) ==
    IF language[o] # NONE THEN language[o] ELSE default_language[o]

\* activate_language that keeps a language already active.
activate_language_unset(o, l) ==
    /\ language' = [language EXCEPT ![o] = IF @ # NONE THEN @ ELSE l]
    /\ Ran("activate_language", o)
    /\ UNCHANGED <<static, pk, default_language, translations, overrides, table,
                   storage, assigned, written, changed, expected>>

\* ModelMixin.activate_language(language)
activate_language(o, l) ==
    /\ language' = [language EXCEPT ![o] = l]
    /\ Ran("activate_language", o)
    /\ UNCHANGED <<static, pk, default_language, translations, overrides, table,
                   storage, assigned, written, changed, expected>>

\* The default_language setter without its first assignment.
set_default_language_only(o, l) ==
    /\ default_language' = [default_language EXCEPT ![o] = l]
    /\ Ran("set_default_language", o)
    /\ UNCHANGED <<static, pk, language, translations, overrides, table, storage,
                   assigned, written, changed, expected>>

\* ModelMixin.default_language = value
set_default_language(o, l) ==
    /\ language' = [language EXCEPT ![o] = l]
    /\ default_language' = [default_language EXCEPT ![o] = l]
    /\ Ran("set_default_language", o)
    /\ UNCHANGED <<static, pk, translations, overrides, table, storage, assigned, written,
                   changed, expected>>

\* ModelMixin.override_language(language), up to its yield: entering the block.
override_language_enter(o, l) ==
    /\ Len(overrides[o]) < MaxDepth
    /\ overrides' = [overrides EXCEPT ![o] = <<language[o]>> \o @]
    /\ language' = [language EXCEPT ![o] = l]
    /\ Ran("override_language_enter", o)
    /\ UNCHANGED <<static, pk, default_language, translations, table, storage,
                   assigned, written, changed, expected>>

\* override_language that resets the language after its yield instead of
\* restoring the previous one.
override_language_exit_reset(o) ==
    /\ overrides[o] # <<>>
    /\ language' = [language EXCEPT ![o] = NONE]
    /\ overrides' = [overrides EXCEPT ![o] = Tail(@)]
    /\ Ran("override_language_exit", o)
    /\ UNCHANGED <<static, pk, default_language, translations, table, storage,
                   assigned, written, changed, expected>>

\* ModelMixin.override_language, after its yield: the block's body completed.
override_language_exit(o) ==
    /\ overrides[o] # <<>>
    /\ language' = [language EXCEPT ![o] = Head(overrides[o])]
    /\ overrides' = [overrides EXCEPT ![o] = Tail(@)]
    /\ Ran("override_language_exit", o)
    /\ UNCHANGED <<static, pk, default_language, translations, table, storage,
                   assigned, written, changed, expected>>

\* ModelMixin.override_language when the block's body raises: the exception
\* is thrown into the generator at its yield, which has no try/finally.
override_language_raise(o) ==
    /\ overrides[o] # <<>>
    /\ overrides' = [overrides EXCEPT ![o] = Tail(@)]
    /\ Ran("override_language_raise", o)
    /\ UNCHANGED <<static, pk, language, default_language, translations, table,
                   storage, assigned, written, changed, expected>>

(* ------------------------------------------------------------------ *)
(* Reading and writing translatable fields                             *)
(* ------------------------------------------------------------------ *)

\* The bookkeeping of an assignment of v to (f, l) on o: what was assigned,
\* and whether the assignment gave the pair another value.
NoteWrite(o, f, l, v) ==
    /\ assigned' = [assigned EXCEPT ![o] = @ \cup {<<f, l>>}]
    /\ written' = [written EXCEPT ![o] =
           [k \in DOMAIN @ \cup {<<f, l>>} |-> IF k = <<f, l>> THEN v ELSE @[k]]]
    /\ changed' = [changed EXCEPT ![o] =
           IF get_localized(o, f, l) # v THEN @ \cup {<<f, l>>} ELSE @]

\* TranslationDescriptor.__set__: instance.<field>_<language> = value
set_localized(o, f, l, v) ==
    /\ translations' = [translations EXCEPT ![o] = set_cache(o, f, l, v)]
    /\ NoteWrite(o, f, l, v)
    /\ Ran("set_localized", o)
    /\ UNCHANGED <<static, pk, language, default_language, overrides, table,
                   storage, expected>>

\* default_value_setter that always writes the default language's field.
default_value_setter_default(o, f, v) ==
    LET l == default_language[o]
    IN /\ translations' = [translations EXCEPT ![o] = set_cache(o, f, l, v)]
       /\ NoteWrite(o, f, ActiveLanguage(o), v)
       /\ Ran("default_value_setter", o)
       /\ UNCHANGED <<static, pk, language, default_language, overrides, table,
                      storage, expected>>

\* default_value_setter that writes the field of every language.
default_value_setter_every_language(o, f, v) ==
    LET c == translations[o]
    IN /\ translations' = [translations EXCEPT ![o] =
              [k \in DOMAIN c \cup ({f} \X Languages) |->
                  IF k[1] = f THEN NewCached(o, f, k[2], v) ELSE c[k]]]
       /\ NoteWrite(o, f, ActiveLanguage(o), v)
       /\ Ran("default_value_setter", o)
       /\ UNCHANGED <<static, pk, language, default_language, overrides, table,
                      storage, expected>>

\* default_value_setter(field): instance.<field> = value
default_value_setter(o, f, v) ==
    LET l == current_language(o)
    IN /\ translations' = [translations EXCEPT ![o] = set_cache(o, f, l, v)]
       /\ NoteWrite(o, f, ActiveLanguage(o), v)
       /\ Ran("default_value_setter", o)
       /\ UNCHANGED <<static, pk, language, default_language, overrides, table,
                      storage, expected>>

\* default_value_getter without the fallback to the default language.
default_value_getter_active(o, f) == get_localized(o, f, language[o])

\* default_value_getter(field): the value of instance.<field>
default_value_getter(o, f) == get_localized(o, f, current_language(o))

\* clear_translations_cache that drops the entries of the current language only.
clear_translations_cache_current(o) ==
    /\ translations' = [translations EXCEPT ![o] =
           [k \in {j \in DOMAIN @ : j[2] # current_language(o)} |-> @[k]]]
    /\ assigned' = [assigned EXCEPT ![o] = {}]
    /\ written' = [written EXCEPT ![o] = Empty]
    /\ changed' = [changed EXCEPT ![o] = {}]
    /\ Ran("clear_translations_cache", o)
    /\ UNCHANGED <<static, pk, language, default_language, overrides, table,
                   storage, expected>>

\* clear_translations_cache on a cache that the instances of the model share.
clear_translations_cache_shared(o) ==
    /\ translations' = [q \in Objects |-> Empty]
    /\ assigned' = [assigned EXCEPT ![o] = {}]
    /\ written' = [written EXCEPT ![o] = Empty]
    /\ changed' = [changed EXCEPT ![o] = {}]
    /\ Ran("clear_translations_cache", o)
    /\ UNCHANGED <<static, pk, language, default_language, overrides, table,
                   storage, expected>>

\* ModelMixin.clear_translations_cache()
clear_translations_cache(o) ==
    /\ translations' = [translations EXCEPT ![o] = Empty]
    /\ assigned' = [assigned EXCEPT ![o] = {}]
    /\ written' = [written EXCEPT ![o] = Empty]
    /\ changed' = [changed EXCEPT ![o] = {}]
    /\ Ran("clear_translations_cache", o)
    /\ UNCHANGED <<static, pk, language, default_language, overrides, table,
                   storage, expected>>

(* ------------------------------------------------------------------ *)
(* Instances: construction, loading, saving                            *)
(* ------------------------------------------------------------------ *)

\* FooModel(): a new, unsaved instance bound to the program variable o.
new_instance(o) ==
    /\ pk' = [pk EXCEPT ![o] = NoPk]
    /\ language' = [language EXCEPT ![o] = NONE]
    /\ default_language' = [default_language EXCEPT ![o] = FallbackLanguage]
    /\ translations' = [translations EXCEPT ![o] = Empty]
    /\ overrides' = [overrides EXCEPT ![o] = <<>>]
    /\ assigned' = [assigned EXCEPT ![o] = {}]
    /\ written' = [written EXCEPT ![o] = Empty]
    /\ changed' = [changed EXCEPT ![o] = {}]
    /\ Ran("new_instance", o)
    /\ UNCHANGED <<static, table, storage, expected>>

\* FooModel.objects.get(pk=p): a fresh copy of the stored object p, bound to
\* o.  A program variable is rebound to the copy, as the tests do, so no two
\* live copies of one stored object exist.
load_instance(o, p) ==
    /\ p \in table
    /\ \A q \in Objects \ {o} : pk[q] # p
    /\ pk' = [pk EXCEPT ![o] = p]
    /\ language' = [language EXCEPT ![o] = NONE]
    /\ default_language' = [default_language EXCEPT ![o] = FallbackLanguage]
    /\ translations' = [translations EXCEPT ![o] = Empty]
    /\ overrides' = [overrides EXCEPT ![o] = <<>>]
    /\ assigned' = [assigned EXCEPT ![o] = {}]
    /\ written' = [written EXCEPT ![o] = Empty]
    /\ changed' = [changed EXCEPT ![o] = {}]
    /\ Ran("load_instance", o)
    /\ UNCHANGED <<static, table, storage, expected>>

\* models.Model.save(): the primary key afterwards; an unsaved instance is
\* inserted and gets the next key.
model_save(o) ==
    IF pk[o] # NoPk THEN pk[o] ELSE Cardinality(table) + 1

\* Translation.objects.save_translations([instance]), for an instance whose
\* primary key is p and whose cache is c: object_id is set on every cached
\* entry, a new entry is created, a changed one updated, and both are then
\* clean.  The result is the cache, the table and the number of writes.
RECURSIVE save_rows(_, _, _, _)
save_rows(rows, p, c, todo) ==
    IF todo = {} THEN rows
    ELSE LET k == CHOOSE k \in todo : TRUE
             e == c[k]
             r == IF e.is_new
                  THEN CreateRow(rows, p, e.field_name, e.language, e.field_value)
                  ELSE UpdateRows(rows, p, e.field_name, e.language, e.field_value)
         IN save_rows(r, p, c, todo \ {k})

save_translations(p, c, rows) ==
    LET dirty == {k \in DOMAIN c : c[k].is_new \/ c[k].has_changed}
    IN [cache |-> [k \in DOMAIN c |->
                     [c[k] EXCEPT !.object_id = p,
                                  !.is_new = IF k \in dirty THEN FALSE ELSE @,
                                  !.has_changed = IF k \in dirty THEN FALSE ELSE @]],
        rows |-> save_rows(rows, p, c, dirty),
        writes |-> Cardinality(dirty)]

\* save() with the two statements swapped: the translations are saved
\* while the instance still has the key it had before models.Model.save().
save_translations_first(o) ==
    LET p == model_save(o)
        t == save_translations(pk[o], translations[o], storage)
    IN /\ p <= MaxPk
       /\ pk' = [pk EXCEPT ![o] = p]
       /\ table' = table \cup {p}
       /\ translations' = [translations EXCEPT ![o] = t.cache]
       /\ storage' = t.rows
       /\ expected' = [expected EXCEPT ![p] =
              [k \in DOMAIN @ \cup DOMAIN written[o] |->
                  IF k \in DOMAIN written[o] THEN written[o][k] ELSE @[k]]]
       /\ written' = [written EXCEPT ![o] = Empty]
       /\ changed' = [changed EXCEPT ![o] = {}]
       /\ queries' = 1 + t.writes
       /\ last' = Op("save", o)
       /\ UNCHANGED <<static, language, default_language, overrides, assigned>>

\* save() that saves the instance once more after its translations.
save_instance_twice(o) ==
    LET p == model_save(o)
        t == save_translations(p, translations[o], storage)
    IN /\ p <= MaxPk
       /\ pk' = [pk EXCEPT ![o] = p]
       /\ table' = table \cup {p}
       /\ translations' = [translations EXCEPT ![o] = t.cache]
       /\ storage' = t.rows
       /\ expected' = [expected EXCEPT ![p] =
              [k \in DOMAIN @ \cup DOMAIN written[o] |->
                  IF k \in DOMAIN written[o] THEN written[o][k] ELSE @[k]]]
       /\ written' = [written EXCEPT ![o] = Empty]
       /\ changed' = [changed EXCEPT ![o] = {}]
       /\ queries' = 1 + t.writes + 1
       /\ last' = Op("save", o)
       /\ UNCHANGED <<static, language, default_language, overrides, assigned>>

\* save() without the call of save_translations(): only the instance is saved.
save_skip_translations(o) ==
    LET p == model_save(o)
    IN /\ p <= MaxPk
       /\ pk' = [pk EXCEPT ![o] = p]
       /\ table' = table \cup {p}
       /\ expected' = [expected EXCEPT ![p] =
              [k \in DOMAIN @ \cup DOMAIN written[o] |->
                  IF k \in DOMAIN written[o] THEN written[o][k] ELSE @[k]]]
       /\ written' = [written EXCEPT ![o] = Empty]
       /\ changed' = [changed EXCEPT ![o] = {}]
       /\ queries' = 1
       /\ last' = Op("save", o)
       /\ UNCHANGED <<static, translations, storage, language, default_language,
                      overrides, assigned>>

\* ModelMixin.save(): the instance is saved first, its translations after.
save(o) ==
    LET p == model_save(o)
        t == save_translations(p, translations[o], storage)
    IN /\ p <= MaxPk
       /\ pk' = [pk EXCEPT ![o] = p]
       /\ table' = table \cup {p}
       /\ translations' = [translations EXCEPT ![o] = t.cache]
       /\ storage' = t.rows
       /\ expected' = [expected EXCEPT ![p] =
              [k \in DOMAIN @ \cup DOMAIN written[o] |->
                  IF k \in DOMAIN written[o] THEN written[o][k] ELSE @[k]]]
       /\ written' = [written EXCEPT ![o] = Empty]
       /\ changed' = [changed EXCEPT ![o] = {}]
       /\ queries' = 1 + t.writes
       /\ last' = Op("save", o)
       /\ UNCHANGED <<static, language, default_language, overrides, assigned>>

\* save() that saves the translations before models.Model.save() raises.
save_error_after_translations(o) ==
    /\ model_save(o) <= MaxPk
    /\ storage' = save_translations(pk[o], translations[o], storage).rows
    /\ Ran("save_error", o)
    /\ UNCHANGED <<static, pk, language, default_language, translations,
                   overrides, table, assigned, written, changed, expected>>

\* ModelMixin.save() when models.Model.save() raises: save_translations is
\* not reached.
save_error(o) ==
    /\ model_save(o) <= MaxPk
    /\ Ran("save_error", o)
    /\ UNCHANGED <<static, pk, language, default_language, translations, overrides,
                   table, storage, assigned, written, changed, expected>>

(* ------------------------------------------------------------------ *)
(* Building the model class (ModelMeta)                                *)
(* ------------------------------------------------------------------ *)

\* Names a class statement may give a field, or list in Meta.linguist.
FieldNames == {"title", "count"}

\* Field classes of django.db.models; SlugField is a subclass of CharField.
FieldClasses == {"CharField", "TextField", "SlugField", "IntegerField"}

SUPPORTED_FIELDS == {"CharField", "TextField"}

\* isinstance(field, classes)
IsInstance(field, classes) ==
    \/ field.class \in classes
    \/ field.class = "SlugField" /\ "CharField" \in classes

\* An attribute of a class that is a model field.
Field(c, n, b, d) ==
    [kind |-> "field", class |-> c, null |-> n, blank |-> b,
     has_default |-> d, language |-> NONE]

\* property(default_value_getter(field_name), default_value_setter(field_name))
Property ==
    [kind |-> "property", class |-> NONE, null |-> FALSE, blank |-> FALSE,
     has_default |-> FALSE, language |-> NONE]

\* The fields a class statement is given in the model.
FieldSamples ==
    {Field("CharField", FALSE, FALSE, FALSE),
     Field("CharField", FALSE, FALSE, TRUE),
     Field("TextField", TRUE, TRUE, FALSE),
     Field("SlugField", FALSE, TRUE, FALSE),
     Field("IntegerField", FALSE, FALSE, FALSE)}

\* Meta.linguist of a class statement: a dict with some keys, or no dict.
LinguistDict(keys, kind, names) ==
    [type |-> "dict", keys |-> keys, fields |-> [type |-> kind, names |-> names]]

NotADict == [type |-> "list", keys |-> {}, fields |-> [type |-> NONE, names |-> <<>>]]

\* A class statement without Meta, and one whose Meta has no linguist.
NoMeta == [type |-> "NoMeta", keys |-> {}, fields |-> [type |-> NONE, names |-> <<>>]]

NoLinguist == [type |-> "NoLinguist", keys |-> {}, fields |-> [type |-> NONE, names |-> <<>>]]

\* The values of Meta.linguist['fields'] of the model: lists and tuples of
\* names, one of them twice and one no field has, and a bare string.
FieldLists ==
    {<<>>, <<"title">>, <<"count">>, <<"title", "count">>, <<"title", "title">>,
     <<"subtitle">>, <<"title", "subtitle">>}

Metas ==
    {NoMeta, NoLinguist, NotADict}
    \cup {LinguistDict(k, t, n) : k \in SUBSET {"identifier", "fields"},
                                  t \in {"list", "tuple", "str"}, n \in FieldLists}

\* The fields of a class body or of an abstract base: name -> field.
FieldMaps(names) ==
    UNION {[S -> FieldSamples] : S \in SUBSET names}

\* The class statements of the model: a body, the fields of its abstract
\* bases, its Meta.  A body does not repeat a field of a base.
Declarations ==
    {d \in [attrs : FieldMaps(FieldNames), base : FieldMaps({"title"}), meta : Metas] :
        DOMAIN d.attrs \cap DOMAIN d.base = {}}

\* validate_meta(meta): the exception it raises, "ok" when it returns.
validate_meta(meta) ==
    IF meta.type # "dict" THEN "TypeError"
    ELSE IF ~({"identifier", "fields"} \subseteq meta.keys) THEN "KeyError"
    ELSE IF meta.fields.type \notin {"list", "tuple"} THEN "ImproperlyConfigured"
    ELSE "ok"

\* utils.get_real_field_name(field_name, lang_code)
get_real_field_name(f, l) == f \o "_" \o l

\* The constraints of a per-language field that is made nullable and blank
\* whatever its language.
localized_constraints_all(field, l) ==
    [field EXCEPT !.null = @ \/ ~field.has_default, !.blank = TRUE]

\* ModelMeta.__new__, lines 166-170: the constraints of the field of
\* language l.
localized_constraints(field, l) ==
    IF l # FallbackLanguage
    THEN [field EXCEPT !.null = @ \/ ~field.has_default, !.blank = TRUE]
    ELSE field

\* create_translation_field(translated_field, language), for a supported
\* field: a TranslationField that takes over the field's options.
create_translation_field(field, l) ==
    [field EXCEPT !.class = "Translation" \o field.class, !.language = l]

\* models.base.ModelBase.__new__: the attributes of the class made of a body
\* and the fields of its abstract bases.
ModelBase_new(attrs, base) ==
    [n \in DOMAIN attrs \cup DOMAIN base |->
        IF n \in DOMAIN attrs THEN attrs[n] ELSE base[n]]

\* setattr(cls, name, value)
SetAttr(attributes, name, value) ==
    [n \in DOMAIN attributes \cup {name} |->
        IF n = name THEN value ELSE attributes[n]]

\* The per-language fields of one translated field contributed to the
\* class, language by language.
RECURSIVE contribute_languages(_, _, _, _)
contribute_languages(attributes, f, field, langs) ==
    IF langs = {} THEN attributes
    ELSE LET l == CHOOSE l \in langs : TRUE
             lang_attr == localized_constraints(create_translation_field(field, l), l)
         IN contribute_languages(
                SetAttr(attributes, get_real_field_name(f, l), lang_attr),
                f, field, langs \ {l})

\* What building a class gives: the exception raised ("none" when the class
\* is returned), whether ModelBase.__new__ made the class, the attributes
\* of the class.
Built(raised, created, attributes) ==
    [raised |-> raised, created |-> created, attributes |-> attributes]

NoAttributes == [n \in {} |-> Property]

\* ModelMeta.__new__, lines 155-176: the loop over original_fields, taken in
\* the given order.  An unsupported field raises when its first language is
\* reached.
RECURSIVE translate_fields(_, _, _)
translate_fields(attributes, original_fields, order) ==
    IF order = <<>> THEN Built("none", TRUE, attributes)
    ELSE LET f == Head(order)
         IN IF f \notin DOMAIN original_fields
            THEN translate_fields(attributes, original_fields, Tail(order))
            ELSE IF ~IsInstance(original_fields[f], SUPPORTED_FIELDS)
            THEN Built("ImproperlyConfigured", TRUE, attributes)
            ELSE translate_fields(
                     SetAttr(contribute_languages(attributes, f,
                                 original_fields[f], Languages),
                             f, Property),
                     original_fields, Tail(order))

\* The set of the elements of a sequence.
Range(seq) == {seq[i] : i \in DOMAIN seq}

\* ModelMeta.__new__(cls, name, bases, attrs), for the class statement d;
\* order is the order in which the dict original_fields is iterated.
ModelMeta_new(d, order) ==
    IF d.meta.type \in {"NoMeta", "NoLinguist"}
    THEN Built("none", TRUE, ModelBase_new(d.attrs, d.base))
    ELSE IF validate_meta(d.meta) # "ok"
    THEN Built(validate_meta(d.meta), FALSE, NoAttributes)
    ELSE LET all_fields == [n \in DOMAIN d.attrs \cup DOMAIN d.base |->
                               IF n \in DOMAIN d.base THEN d.base[n] ELSE d.attrs[n]]
             names == Range(d.meta.fields.names)
         IN IF ~(names \subseteq DOMAIN all_fields)
            THEN Built("ImproperlyConfigured", FALSE, NoAttributes)
            ELSE LET original_fields == [n \in names |-> all_fields[n]]
                     attrs == [n \in DOMAIN d.attrs \ names |-> d.attrs[n]]
                     new_class == ModelBase_new(attrs, d.base)
                 IN translate_fields(new_class, original_fields, order)

\* The orders a dict of field names is iterated in.
Orders == {<<"title", "count">>, <<"count", "title">>}

\* No class statement was executed.
NotBuilt == Built("unbuilt", FALSE, NoAttributes)

\* The class statement is executed.
build_class(order) ==
    /\ built = NotBuilt
    /\ built' = ModelMeta_new(declared, order)
    /\ Ran("build_class", "x")
    /\ UNCHANGED <<pk, language, default_language, translations, overrides,
                   table, storage, assigned, written, changed, expected,
                   declared, response, kwargs>>

\* The model of the tests: a title, translated.
FooModel ==
    [attrs |-> [n \in {"title"} |-> Field("CharField", FALSE, FALSE, FALSE)],
     base |-> [n \in {} |-> Property],
     meta |-> LinguistDict({"identifier", "fields"}, "list", <<"title">>)]

\* No request was served.
NoResponse == [status |-> "none", deleted |-> 0]

(* ------------------------------------------------------------------ *)
(* Prefetching translations (ManagerMixin.with_translations)           *)
(* ------------------------------------------------------------------ *)

\* Largest chunks_length passed to with_translations.
MaxChunk == 3

\* A keyword argument: left out (None), one value, or a list or tuple.
NoArg == [kind |-> "none", value |-> <<>>]

Single(v) == [kind |-> "value", value |-> v]

List(seq) == [kind |-> "list", value |-> seq]

\* The field_names and languages a program passes.
FieldNameArgs ==
    {NoArg, Single("title"), List(<<>>), List(<<"count">>), List(<<"title", "count">>)}

LanguageArgs ==
    {NoArg, Single("fr"), List(<<>>), List(<<"en">>), List(<<"en", "fr">>)}

\* chunks_length: None, or a positive number.
NoChunks == [kind |-> "none", value |-> 0]

ChunkArgs == {NoChunks} \cup {[kind |-> "value", value |-> n] : n \in 1..MaxChunk}

\* with_translations() called without arguments.
NoKwargs == [field_names |-> NoArg, languages |-> NoArg, chunks_length |-> NoChunks]

\* with_translations, lines 210-211: a value that is no list or tuple
\* becomes a one-element list.
AsList(arg) == IF arg.kind = "list" THEN arg.value ELSE <<arg.value>>

\* A lookup that selects the rows of every model.
lookup_any_identifier(r) == TRUE

\* with_translations, line 205: lookup = dict(identifier=...)
lookup_identifier(r) == r.identifier = Identifier

\* Translation.objects.filter(**lookup): identifier, field_name__in and
\* language__in when passed, object_id__in.
FilterTranslations(rows, field_names, languages, ids) ==
    {r \in BagToSet(rows) :
        /\ lookup_identifier(r)
        /\ field_names.kind # "none" => r.field_name \in Range(AsList(field_names))
        /\ languages.kind # "none" => r.language \in Range(AsList(languages))
        /\ r.object_id \in Range(ids)}

\* qs.values_list('id', flat=True): the primary keys of the table, in order.
RECURSIVE values_list(_)
values_list(S) ==
    IF S = {} THEN <<>>
    ELSE LET p == CHOOSE p \in S : \A q \in S : p <= q
         IN <<p>> \o values_list(S \ {p})

\* utils.chunks(l, n): l cut into pieces of length n, the last one shorter.
RECURSIVE chunks(_, _)
chunks(l, n) ==
    IF l = <<>> THEN <<>>
    ELSE IF Len(l) <= n THEN <<l>>
    ELSE <<SubSeq(l, 1, n)>> \o chunks(SubSeq(l, n + 1, Len(l)), n)

\* with_translations, lines 215-226: the translations fetched, chunk by
\* chunk or at once.
fetch_translations(rows, ids, field_names, languages, chunks_length) ==
    IF chunks_length.kind # "none"
    THEN LET cs == chunks(ids, chunks_length.value)
         IN UNION {FilterTranslations(rows, field_names, languages, cs[i]) :
                      i \in DOMAIN cs}
    ELSE FilterTranslations(rows, field_names, languages, ids)

\* set_instance_cache(instance, translations): the cache is cleared, then
\* every translation is cached under its field name and language.
set_instance_cache(trs) ==
    [k \in {<<r.field_name, r.language>> : r \in trs} |->
        FromObject(CHOOSE r \in trs : <<r.field_name, r.language>> = k)]

\* The cache with_translations leaves on the instance whose primary key is
\* p: the translations fetched are grouped by object_id.
prefetched(p, field_names, languages, chunks_length) ==
    LET trs == fetch_translations(storage, values_list(table), field_names,
                                  languages, chunks_length)
    IN set_instance_cache({r \in trs : r.object_id = p})

\* ManagerMixin.with_translations(field_names=.., languages=..,
\* chunks_length=..); the instances of the queryset are the instances the
\* program holds of the objects of the table.
with_translations ==
    /\ translations' = [o \in Objects |->
           IF pk[o] \in table
           THEN prefetched(pk[o], kwargs.field_names, kwargs.languages,
                           kwargs.chunks_length)
           ELSE translations[o]]
    /\ assigned' = [o \in Objects |->
           IF pk[o] \in table THEN DOMAIN translations'[o] ELSE assigned[o]]
    /\ written' = [o \in Objects |-> IF pk[o] \in table THEN Empty ELSE written[o]]
    /\ changed' = [o \in Objects |-> IF pk[o] \in table THEN {} ELSE changed[o]]
    /\ Ran("with_translations", "x")
    /\ UNCHANGED <<static, pk, language, default_language, overrides, table,
                   storage, expected>>

\* The rows the Translation table may hold when translations are
\* prefetched: of the model's two objects and of the same objects of
\* another model.
PrefetchRows ==
    {Row(1, "title", "en", "a"), Row(1, "title", "fr", "b"),
     Row(1, "count", "en", "a"), Row(2, "title", "fr", "a"),
     Row(2, "count", "fr", "b"),
     [Row(1, "title", "en", "b") EXCEPT !.identifier = "bar"],
     [Row(2, "count", "en", "b") EXCEPT !.identifier = "bar"]}

(* ------------------------------------------------------------------ *)
(* The admin view delete_translations                                  *)
(* ------------------------------------------------------------------ *)

\* The admin classes of linguist a ModelAdmin of a project derives from:
\* ModelTranslationTabbedAdmin alone, or together with ModelTranslationAdmin.
AdminBases ==
    {{"ModelTranslationTabbedAdmin"},
     {"ModelTranslationTabbedAdmin", "ModelTranslationAdmin"}}

\* The object ids a request names: of the two stored objects, and unknown.
RequestIds == {1, 2, 3}

\* What the view answers: a response or the exception it raises, and the
\* number of translations it deleted.
Response(status, n) == [status |-> status, deleted |-> n]

\* ModelTranslationTabbedAdmin.get_object(request, object_id):
\* super(ModelTranslationAdmin, self) raises TypeError when self is no
\* instance of ModelTranslationAdmin; else the object is looked up, and is
\* None when there is none.
get_object(bases, object_id) ==
    [raised |-> IF "ModelTranslationAdmin" \notin bases THEN "TypeError" ELSE "none",
     is_none |-> object_id \notin table,
     pk |-> object_id]

\* Translation.objects.delete_translations(obj=obj, language=language): the
\* table without the translations of the object in the language.
delete_translations(rows, p, l) ==
    LET gone == {r \in BagToSet(rows) :
                    /\ r.identifier = Identifier
                    /\ r.object_id = p
                    /\ r.language = l}
    IN [r \in BagToSet(rows) \ gone |-> rows[r]]

\* ModelTranslationTabbedAdmin.delete_translations(request, object_id,
\* language), for a request with or without POST data of a user with or
\* without the change permission.
delete_translations_view(bases, object_id, l, post, may_change) ==
    LET obj == get_object(bases, object_id)
    IN /\ IF obj.raised = "TypeError"
          THEN /\ response' = Response("TypeError", 0)
               /\ storage' = storage
          ELSE IF obj.is_none
          THEN /\ response' = Response("Http404", 0)
               /\ storage' = storage
          ELSE IF post
          THEN /\ storage' = delete_translations(storage, obj.pk, l)
               /\ response' = Response(IF may_change THEN "changelist" ELSE "index",
                                       BagCardinality(storage)
                                          - BagCardinality(storage'))
          ELSE /\ response' = Response("delete_confirmation", 0)
               /\ storage' = storage
       /\ Ran("delete_translations", "x")
       /\ UNCHANGED <<pk, language, default_language, translations, overrides,
                      table, assigned, written, changed, expected, declared,
                      built, kwargs>>

(* ------------------------------------------------------------------ *)
(* Specification                                                       *)
(* ------------------------------------------------------------------ *)

Init ==
    /\ pk = [o \in Objects |-> NoPk]
    /\ language = [o \in Objects |-> NONE]
    /\ default_language = [o \in Objects |-> FallbackLanguage]
    /\ translations = [o \in Objects |-> Empty]
    /\ overrides = [o \in Objects |-> <<>>]
    /\ table = {}
    /\ storage = EmptyBag
    /\ assigned = [o \in Objects |-> {}]
    /\ written = [o \in Objects |-> Empty]
    /\ changed = [o \in Objects |-> {}]
    /\ expected = [p \in 1..MaxPk |-> Empty]
    /\ queries = 0
    /\ last = Op("init", "x")
    /\ declared = FooModel
    /\ built = ModelMeta_new(FooModel, <<"title", "count">>)
    /\ response = NoResponse
    /\ kwargs = NoKwargs

\* The cache and its storage: every operation but the override blocks.
Next ==
    \E o \in Primary :
        \/ new_instance(o)
        \/ \E p \in 1..MaxPk : load_instance(o, p)
        \/ \E l \in Languages : activate_language(o, l)
        \/ \E l \in Languages : set_default_language(o, l)
        \/ \E f \in Fields, l \in Languages, v \in Values : set_localized(o, f, l, v)
        \/ \E f \in Fields, v \in Values : default_value_setter(o, f, v)
        \/ clear_translations_cache(o)
        \/ save(o)
        \/ save_error(o)

Spec == Init /\ [][Next]_vars

\* The language of an instance: selection and override blocks.
NextLanguage ==
    \E o \in Objects :
        \/ \E l \in Languages : activate_language(o, l)
        \/ \E l \in Languages : set_default_language(o, l)
        \/ \E l \in Languages : override_language_enter(o, l)
        \/ override_language_exit(o)
        \/ override_language_raise(o)

SpecLanguage == Init /\ [][NextLanguage]_vars

\* The title the i-th instance is given, in every language.
TitleOf(o) == IF o = "x" THEN "a" ELSE "b"

\* Several instances of the model side by side: each is given its title
\* through the bare field name, cleared and saved.
NextInstances ==
    \E o \in Objects :
        \/ new_instance(o)
        \/ \E l \in Languages : activate_language(o, l)
        \/ \E f \in Fields : default_value_setter(o, f, TitleOf(o))
        \/ clear_translations_cache(o)
        \/ save(o)

SpecInstances == Init /\ [][NextInstances]_vars

\* A class statement of the model is executed.
InitMeta ==
    /\ pk = [o \in Objects |-> NoPk]
    /\ language = [o \in Objects |-> NONE]
    /\ default_language = [o \in Objects |-> FallbackLanguage]
    /\ translations = [o \in Objects |-> Empty]
    /\ overrides = [o \in Objects |-> <<>>]
    /\ table = {}
    /\ storage = EmptyBag
    /\ assigned = [o \in Objects |-> {}]
    /\ written = [o \in Objects |-> Empty]
    /\ changed = [o \in Objects |-> {}]
    /\ expected = [p \in 1..MaxPk |-> Empty]
    /\ queries = 0
    /\ last = Op("init", "x")
    /\ declared \in Declarations
    /\ built = NotBuilt
    /\ response = NoResponse
    /\ kwargs = NoKwargs

NextMeta == \E order \in Orders : build_class(order)

SpecMeta == InitMeta /\ [][NextMeta]_vars

\* Two stored objects, each held by an instance, and a Translation table.
InitPrefetch ==
    /\ pk = [o \in Objects |-> IF o = "x" THEN 1 ELSE 2]
    /\ language = [o \in Objects |-> NONE]
    /\ default_language = [o \in Objects |-> FallbackLanguage]
    /\ translations = [o \in Objects |-> Empty]
    /\ overrides = [o \in Objects |-> <<>>]
    /\ table = {1, 2}
    /\ storage \in {SetToBag(S) : S \in SUBSET PrefetchRows}
    /\ assigned = [o \in Objects |-> {}]
    /\ written = [o \in Objects |-> Empty]
    /\ changed = [o \in Objects |-> {}]
    /\ expected = [p \in 1..MaxPk |-> Empty]
    /\ queries = 0
    /\ last = Op("init", "x")
    /\ declared = FooModel
    /\ built = ModelMeta_new(FooModel, <<"title", "count">>)
    /\ response = NoResponse
    /\ kwargs \in [field_names : FieldNameArgs, languages : LanguageArgs,
                    chunks_length : ChunkArgs]

\* Translations are prefetched, also over a cache an assignment filled.
NextPrefetch ==
    \/ with_translations
    \/ \E o \in Objects : set_localized(o, "count", "fr", "a")

SpecPrefetch == InitPrefetch /\ [][NextPrefetch]_vars

\* Two stored objects and a Translation table, served by the admin.
InitAdmin ==
    /\ pk = [o \in Objects |-> IF o = "x" THEN 1 ELSE 2]
    /\ language = [o \in Objects |-> NONE]
    /\ default_language = [o \in Objects |-> FallbackLanguage]
    /\ translations = [o \in Objects |-> Empty]
    /\ overrides = [o \in Objects |-> <<>>]
    /\ table = {1, 2}
    /\ storage \in {SetToBag(S) : S \in SUBSET PrefetchRows}
    /\ assigned = [o \in Objects |-> {}]
    /\ written = [o \in Objects |-> Empty]
    /\ changed = [o \in Objects |-> {}]
    /\ expected = [p \in 1..MaxPk |-> Empty]
    /\ queries = 0
    /\ last = Op("init", "x")
    /\ declared = FooModel
    /\ built = ModelMeta_new(FooModel, <<"title", "count">>)
    /\ response = NoResponse
    /\ kwargs = NoKwargs

NextAdmin ==
    \E bases \in AdminBases, object_id \in RequestIds, l \in Languages,
       post \in BOOLEAN, may_change \in BOOLEAN :
          delete_translations_view(bases, object_id, l, post, may_change)

SpecAdmin == InitAdmin /\ [][NextAdmin]_vars

(* ------------------------------------------------------------------ *)
(* Properties                                                          *)
(* ------------------------------------------------------------------ *)

\* The value expected for pair k of stored object p: the one last assigned
\* and then saved, None when none was.
ExpectedValue(p, k) ==
    IF k \in DOMAIN expected[p] THEN expected[p][k] ELSE NONE

\* C1: after save() on an instance, storage holds exactly one row for every
\* cached (field, language) entry of the instance, under the instance's
\* identifier and primary key, with the cached value; and at no time is a
\* row stored for a pair that was never assigned and saved.
C1_SaveStoresCache ==
    /\ \A o \in Objects :
          last = Op("save", o) =>
             \A k \in DOMAIN translations[o] :
                /\ RowCount(storage, pk[o], k[1], k[2]) = 1
                /\ \A r \in Lookup(storage, pk[o], k[1], k[2]) :
                      r.field_value = translations[o][k].field_value
    /\ \A r \in BagToSet(storage) :
          /\ r.identifier = Identifier
          /\ r.object_id \in table
          /\ <<r.field_name, r.language>> \in DOMAIN expected[r.object_id]

\* A first save() has just persisted the entries of both languages.
C1_Witness ==
    /\ last = Op("save", "x")
    /\ queries = 3
    /\ DOMAIN translations["x"] = {<<"title", "en">>, <<"title", "fr">>}
    /\ BagCardinality(storage) = 2
    /\ translations["x"][<<"title", "en">>].field_value = "a"
    /\ translations["x"][<<"title", "fr">>].field_value = "b"

\* C2: save() issues one query for the instance and one per cached entry
\* whose value an assignment changed since the instance was last saved or
\* loaded; the rows of the other cached entries are left as they are.
C2_SaveQueries ==
    [][\A o \in Objects :
          save(o) =>
             /\ queries' = 1 + Cardinality(changed[o] \cap DOMAIN translations[o])
             /\ \A k \in DOMAIN translations[o] \ changed[o] :
                   Lookup(storage', pk'[o], k[1], k[2])
                      = Lookup(storage, pk[o], k[1], k[2])]_vars

\* A save() of an instance with two cached entries of which one changed.
C2_Witness ==
    /\ last = Op("save", "x")
    /\ queries = 2
    /\ Cardinality(DOMAIN translations["x"]) = 2
    /\ \E k \in Keys : ExpectedValue(pk["x"], k) = "b"

\* C3: on a freshly loaded copy of a saved instance every (field, language)
\* reads as the value last assigned to it and then saved, None when there
\* was none.
C3_RoundTrip ==
    \A o \in Objects :
       last = Op("load_instance", o) =>
          \A f \in Fields, l \in Languages :
             get_localized(o, f, l) = ExpectedValue(pk[o], <<f, l>>)

\* A fresh copy reads the two values saved for its two languages.
C3_Witness ==
    /\ last = Op("load_instance", "x")
    /\ get_localized("x", "title", "en") = "b"
    /\ get_localized("x", "title", "fr") = "a"
    /\ translations["x"] = Empty

\* C4: the bare field name reads as <field>_<L> does, L being the active
\* language of the instance or its default language when none is active,
\* and assigning it is assigning <field>_<L>: the entry (field, L) gets the
\* value, no other entry is created, changed or removed, and the cache is
\* the one the assignment of <field>_<L> leaves.
C4_BareIsLocalized ==
    [][\A o \in Objects, f \in Fields :
          LET L == IF language[o] \in Languages THEN language[o]
                   ELSE default_language[o]
          IN /\ default_value_getter(o, f) = get_localized(o, f, L)
             /\ \A v \in Values :
                   default_value_setter(o, f, v) =>
                      /\ <<f, L>> \in DOMAIN translations'[o]
                      /\ translations'[o][<<f, L>>].field_value = v
                      /\ DOMAIN translations'[o] = DOMAIN translations[o] \cup {<<f, L>>}
                      /\ \A k \in DOMAIN translations[o] \ {<<f, L>>} :
                            translations'[o][k] = translations[o][k]
                      /\ translations'[o] = set_cache(o, f, L, v)]_vars

\* The bare name was assigned while French was active and English the
\* default: it updated the saved French entry, and that is the only entry.
C4_Witness ==
    /\ last = Op("default_value_setter", "x")
    /\ language["x"] = "fr"
    /\ default_language["x"] = "en"
    /\ DOMAIN translations["x"] = {<<"title", "fr">>}
    /\ translations["x"][<<"title", "fr">>].has_changed
    /\ ~translations["x"][<<"title", "fr">>].is_new
    /\ BagCardinality(storage) = 1

C6_CountIsAssignedPairs ==
    \A o \in Objects :
       /\ cached_translations_count(o) = Cardinality(assigned[o])
       /\ last = Op("clear_translations_cache", o) =>
             cached_translations_count(o) = 0

\* The cache of a saved instance that held both languages was cleared.
C6_Witness ==
    /\ last = Op("clear_translations_cache", "x")
    /\ cached_translations_count("x") = 0
    /\ BagCardinality(storage) = 2
    /\ pk["x"] # NoPk

\* C7: on an instance that was never saved every cached entry is new and
\* has no object id; save() makes every cached entry not new, gives it the
\* instance's primary key, and keeps its language, field name, identifier
\* and value.
C7_NewUntilSaved ==
    [][\A o \in Objects :
          /\ pk'[o] = NoPk =>
                \A k \in DOMAIN translations'[o] :
                   /\ translations'[o][k].is_new
                   /\ translations'[o][k].object_id = NoPk
          /\ save(o) =>
                /\ pk'[o] # NoPk
                /\ DOMAIN translations'[o] = DOMAIN translations[o]
                /\ \A k \in DOMAIN translations[o] :
                      /\ ~translations'[o][k].is_new
                      /\ translations'[o][k].object_id = pk'[o]
                      /\ translations'[o][k].language = translations[o][k].language
                      /\ translations'[o][k].field_name = translations[o][k].field_name
                      /\ translations'[o][k].identifier = translations[o][k].identifier
                      /\ translations'[o][k].field_value = translations[o][k].field_value]_vars

\* The first save() of an instance with one cached entry.
C7_Witness ==
    /\ last = Op("save", "x")
    /\ queries = 2
    /\ DOMAIN translations["x"] = {<<"title", "fr">>}
    /\ ~translations["x"][<<"title", "fr">>].is_new
    /\ translations["x"][<<"title", "fr">>].object_id = pk["x"]
    /\ BagCardinality(storage) = 1

\* C8: activate_language(L) makes L the active language of the instance,
\* whatever was active before.
C8_ActivateSets ==
    [][\A o \in Objects, l \in Languages :
          activate_language(o, l) => language'[o] = l]_vars

\* A language was activated inside an override block of another language.
C8_Witness ==
    /\ last = Op("activate_language", "x")
    /\ language["x"] = "fr"
    /\ overrides["x"] = <<"en">>

\* C9: entering override_language(L) makes L the active language and keeps
\* the open blocks as they are; leaving a block restores the language that
\* was active when that block was entered, innermost block first.
C9_OverrideRestores ==
    [][\A o \in Objects :
          /\ \A l \in Languages :
                override_language_enter(o, l) =>
                   /\ language'[o] = l
                   /\ Head(overrides'[o]) = language[o]
                   /\ Tail(overrides'[o]) = overrides[o]
          /\ override_language_exit(o) =>
                /\ language'[o] = Head(overrides[o])
                /\ overrides'[o] = Tail(overrides[o])]_vars

\* The inner of two nested blocks was left: French, active when it was
\* entered, is active again, and the outer block still holds English.
C9_Witness ==
    /\ last = Op("override_language_exit", "x")
    /\ language["x"] = "fr"
    /\ overrides["x"] = <<"en">>

\* C10: assigning default_language makes the value the default and the
\* active language; activate_language changes the active language and
\* leaves the default language as it is.
C10_DefaultLanguage ==
    [][\A o \in Objects, l \in Languages :
          /\ set_default_language(o, l) =>
                /\ default_language'[o] = l
                /\ language'[o] = l
          /\ activate_language(o, l) =>
                /\ language'[o] = l
                /\ default_language'[o] = default_language[o]]_vars

\* French was made the default, then English was activated.
C10_Witness ==
    /\ last = Op("activate_language", "x")
    /\ default_language["x"] = "fr"
    /\ language["x"] = "en"

DeclaredField(d, f) == IF f \in DOMAIN d.base THEN d.base[f] ELSE d.attrs[f]

\* C12: a class built from a Meta with linguist fields has, for every listed
\* field and every supported language, one attribute <field>_<language>
\* that is a translation field of the listed field's class, and no other
\* per-language attribute; the listed field's own name is a property; the
\* field of a language other than the default is blank, and nullable
\* unless the listed field is nullable already or has a default; the
\* default language's field has the listed field's null and blank.
C12_LocalizedFields ==
    (built.raised = "none" /\ declared.meta.type = "dict") =>
       LET names == Range(declared.meta.fields.names)
           localized == {n \in DOMAIN built.attributes :
                            built.attributes[n].language # NONE}
       IN /\ Cardinality(localized) = Cardinality(names) * Cardinality(Languages)
          /\ \A f \in names :
                /\ built.attributes[f] = Property
                /\ \A l \in Languages :
                      LET n == f \o "_" \o l
                          orig == DeclaredField(declared, f)
                      IN /\ n \in localized
                         /\ built.attributes[n].kind = "field"
                         /\ built.attributes[n].language = l
                         /\ built.attributes[n].class = "Translation" \o orig.class
                         /\ built.attributes[n].has_default = orig.has_default
                         /\ l = FallbackLanguage =>
                               /\ built.attributes[n].null = orig.null
                               /\ built.attributes[n].blank = orig.blank
                         /\ l # FallbackLanguage =>
                               /\ built.attributes[n].blank
                               /\ built.attributes[n].null
                                     = (orig.null \/ ~orig.has_default)
          /\ \A n \in DOMAIN declared.attrs \ names :
                built.attributes[n] = declared.attrs[n]

\* A class with two translated fields was built: the title, of an abstract
\* base, is nullable in French only; the count, which has a default, is
\* nullable in no language and blank in French only.
C12_Witness ==
    /\ built.raised = "none"
    /\ declared.meta.fields.names = <<"title", "count">>
    /\ "title" \in DOMAIN declared.base
    /\ built.attributes["title"] = Property
    /\ built.attributes["title_fr"].null
    /\ ~built.attributes["title_en"].null
    /\ built.attributes["count"] = Property
    /\ ~built.attributes["count_fr"].null
    /\ built.attributes["count_fr"].blank
    /\ ~built.attributes["count_en"].blank

\* C13: building a class from a bad linguist Meta raises and creates no
\* class: TypeError when it is no dict, KeyError when 'identifier' or
\* 'fields' is missing, ImproperlyConfigured when 'fields' is no list or
\* tuple, when a listed name is no field of the class or its abstract
\* bases, and when a listed field is no CharField or TextField; a class
\* without linguist Meta is built as its body and bases say.
C13_RejectsBadMeta ==
    built # NotBuilt =>
       LET m == declared.meta
           names == Range(m.fields.names)
           declares == DOMAIN declared.attrs \cup DOMAIN declared.base
           Rejected(e) == built.raised = e /\ ~built.created
       IN IF m.type \in {"NoMeta", "NoLinguist"}
          THEN /\ built.raised = "none"
               /\ built.attributes = ModelBase_new(declared.attrs, declared.base)
          ELSE IF m.type # "dict" THEN Rejected("TypeError")
          ELSE IF ~({"identifier", "fields"} \subseteq m.keys) THEN Rejected("KeyError")
          ELSE IF m.fields.type \notin {"list", "tuple"}
          THEN Rejected("ImproperlyConfigured")
          ELSE IF ~(names \subseteq declares) THEN Rejected("ImproperlyConfigured")
          ELSE IF \E f \in names :
                     DeclaredField(declared, f).class
                         \notin {"CharField", "TextField", "SlugField"}
          THEN Rejected("ImproperlyConfigured")
          ELSE built.raised = "none"

\* C14: assigning a value to (field F, language L) changes the value no
\* other pair of the instance reads as and changes no stored row; save()
\* changes the value no pair reads as, and leaves the stored rows of every
\* pair that was not assigned since the last save as they are.
C14_OtherPairsKept ==
    [][\A o \in Objects :
          /\ \A f \in Fields, l \in Languages, v \in Values :
                set_localized(o, f, l, v) =>
                   /\ storage' = storage
                   /\ \A k \in Keys \ {<<f, l>>} :
                         get_localized(o, k[1], k[2])' = get_localized(o, k[1], k[2])
          /\ \A f \in Fields, v \in Values :
                default_value_setter(o, f, v) =>
                   /\ storage' = storage
                   /\ \A k \in Keys \ {<<f, ActiveLanguage(o)>>} :
                         get_localized(o, k[1], k[2])' = get_localized(o, k[1], k[2])
          /\ save(o) =>
                /\ \A k \in Keys :
                      get_localized(o, k[1], k[2])' =
                         IF k \in DOMAIN translations[o]
                         THEN translations[o][k].field_value
                         ELSE get_localized(o, k[1], k[2])
                /\ \A k \in Keys \ DOMAIN written[o] :
                      Lookup(storage', pk'[o], k[1], k[2])
                         = Lookup(storage, pk'[o], k[1], k[2])]_vars

\* Both titles were saved, then only the English one was given another
\* value and the instance saved again: the French one is as it was saved.
C14_Witness ==
    /\ last = Op("save", "x")
    /\ queries = 2
    /\ language["x"] = "en"
    /\ get_localized("x", "title", "en") = "b"
    /\ get_localized("x", "title", "fr") = "a"
    /\ \E r \in BagToSet(storage) : r.language = "fr" /\ r.field_value = "a"
    /\ \E r \in BagToSet(storage) : r.language = "en" /\ r.field_value = "b"
    /\ BagCardinality(storage) = 2
    /\ ~translations["x"][<<"title", "fr">>].has_changed

\* C15: every stored translation row has the primary key of a saved
\* instance as object id, never None; the rows a save() creates or changes
\* carry the primary key the instance has after models.Model.save(), also
\* on its first save; a save() whose models.Model.save() fails writes no
\* row.
C15_InstanceSavedFirst ==
    [][/\ \A r \in BagToSet(storage') :
             r.object_id # NoPk /\ r.object_id \in table'
       /\ \A o \in Objects :
             /\ save(o) =>
                   /\ pk'[o] # NoPk
                   /\ \A r \in BagToSet(storage') :
                         CopiesIn(r, storage') # CopiesIn(r, storage) =>
                            r.object_id = pk'[o]
             /\ save_error(o) =>
                   /\ storage' = storage
                   /\ table' = table]_vars

\* The first save() stored the English title under the new primary key; a
\* later save() failed and the French title, new in the cache, has no row.
C15_Witness ==
    /\ last = Op("save_error", "x")
    /\ pk["x"] = 1
    /\ BagToSet(storage) = {Row(1, "title", "en", "a")}
    /\ DOMAIN translations["x"] = Keys
    /\ translations["x"][<<"title", "en">>].object_id = 1
    /\ translations["x"][<<"title", "fr">>].is_new

\* The stored translations of the model's object p, restricted to the
\* field names and the languages passed.
StoredFor(p, field_names, languages) ==
    {r \in BagToSet(storage) :
        /\ r.identifier = Identifier
        /\ r.object_id = p
        /\ field_names.kind = "value" => r.field_name = field_names.value
        /\ field_names.kind = "list" =>
              \E i \in DOMAIN field_names.value : r.field_name = field_names.value[i]
        /\ languages.kind = "value" => r.language = languages.value
        /\ languages.kind = "list" =>
              \E i \in DOMAIN languages.value : r.language = languages.value[i]}

\* C16: with_translations leaves the cache of every instance of the
\* queryset holding exactly the stored translations of the model's
\* identifier and the instance's primary key, restricted to the field
\* names and languages passed, one value counting as a list of one: an
\* entry per such row, with the row's value, and no other entry, whatever
\* was cached before; and the caches are the same for every chunk size and
\* without chunks.
C16_PrefetchExact ==
    [][with_translations =>
             \A o \in Objects :
                LET fn == kwargs.field_names
                    ln == kwargs.languages
                    S == StoredFor(pk[o], fn, ln)
                IN /\ DOMAIN translations'[o] = {<<r.field_name, r.language>> : r \in S}
                   /\ \A r \in S :
                         LET e == translations'[o][<<r.field_name, r.language>>]
                         IN /\ e.field_value = r.field_value
                            /\ e.object_id = pk[o]
                            /\ e.identifier = Identifier
                            /\ ~e.is_new
                            /\ ~e.has_changed
                   /\ \A d \in ChunkArgs :
                         translations'[o] = prefetched(pk[o], fn, ln, d)]_vars

\* French translations were prefetched one object at a time: the first
\* instance holds its French title only, the second its French title and
\* count; no row of the other model is cached.
C16_Witness ==
    /\ last = Op("with_translations", "x")
    /\ kwargs = [field_names |-> NoArg, languages |-> Single("fr"),
                 chunks_length |-> [kind |-> "value", value |-> 1]]
    /\ BagToSet(storage) = PrefetchRows
    /\ DOMAIN translations["x"] = {<<"title", "fr">>}
    /\ translations["x"][<<"title", "fr">>].field_value = "b"
    /\ DOMAIN translations["y"] = {<<"title", "fr">>, <<"count", "fr">>}

\* C17: the admin view delete_translations answers a POST for an existing
\* object by deleting the translations of that object in the requested
\* language, and no other, and redirecting to the change list, or to the
\* admin index when the user may not change; a request without POST data
\* by the confirmation page, with the stored translations as they were; a
\* request for an unknown object by Http404, with nothing deleted.
C17_DeleteOnPostOnly ==
    [][\A bases \in AdminBases, object_id \in RequestIds, l \in Languages,
          post \in BOOLEAN, may_change \in BOOLEAN :
          delete_translations_view(bases, object_id, l, post, may_change) =>
             IF object_id \notin table
             THEN response'.status = "Http404" /\ storage' = storage
             ELSE IF post
             THEN /\ response'.status = IF may_change THEN "changelist" ELSE "index"
                  /\ \A r \in BagToSet(storage) :
                        CopiesIn(r, storage') =
                           IF /\ r.identifier = Identifier
                              /\ r.object_id = object_id
                              /\ r.language = l
                           THEN 0 ELSE CopiesIn(r, storage)
                  /\ BagToSet(storage') \subseteq BagToSet(storage)
             ELSE /\ response'.status = "delete_confirmation"
                  /\ storage' = storage]_vars

\* C18: when the body of an override_language block raises, the language
\* that was active when the block was entered is active again.
C18_RaiseRestores ==
    [][\A o \in Objects :
          override_language_raise(o) =>
             /\ language'[o] = Head(overrides[o])
             /\ overrides'[o] = Tail(overrides[o])]_vars

====
